---- MODULE Spec2Model ----
(***************************************************************************)
(* Repülőjegy Foglalási Rendszer (src/main.py): the booking system         *)
(* RepuloJegyFoglalasiRendszer as a state machine.  Text is a tuple of     *)
(* one-character strings, so that strip(), upper(), lower(), int(),        *)
(* float() and strptime() are computed; a price is a Python float, i.e.    *)
(* an IEEE-754 binary64 value, and is multiplied and truncated as binary64.*)
(***************************************************************************)
EXTENDS Integers, Sequences, FiniteSets, TLC

VARIABLES legitarsasag, jaratok, foglalasok, existing_foglalas_ids,
          now, pc, fuggo, kimenet

vars == <<legitarsasag, jaratok, foglalasok, existing_foglalas_ids,
          now, pc, fuggo, kimenet>>

(***************************************************************************)
(* Text                                                                    *)
(***************************************************************************)
\* the letters the supplied texts use, for upper() and lower()
Kisbetuk == <<"a", "b", "f", "i", "n", "q", "w", "z">>
Nagybetuk == <<"A", "B", "F", "I", "N", "Q", "W", "Z">>
Szamjegyek == <<"0", "1", "2", "3", "4", "5", "6", "7", "8", "9">>

RECURSIVE HelyBen(_, _, _)
\* index of character c in the tuple t at or after position i, 0 when absent
HelyBen(c, t, i) ==
    IF i > Len(t) THEN 0
    ELSE IF t[i] = c THEN i ELSE HelyBen(c, t, i + 1)

IsSpace(c) == c = " "
IsDigit(c) == HelyBen(c, Szamjegyek, 1) # 0
DigitVal(c) == HelyBen(c, Szamjegyek, 1) - 1

\* str.upper() and str.lower(), character by character
UpperCh(c) == IF HelyBen(c, Kisbetuk, 1) # 0 THEN Nagybetuk[HelyBen(c, Kisbetuk, 1)] ELSE c
LowerCh(c) == IF HelyBen(c, Nagybetuk, 1) # 0 THEN Kisbetuk[HelyBen(c, Nagybetuk, 1)] ELSE c
Upper(s) == [i \in 1..Len(s) |-> UpperCh(s[i])]
Lower(s) == [i \in 1..Len(s) |-> LowerCh(s[i])]

RECURSIVE LStrip(_)
LStrip(s) == IF s # <<>> /\ IsSpace(Head(s)) THEN LStrip(Tail(s)) ELSE s
RECURSIVE RStrip(_)
RStrip(s) ==
    IF s # <<>> /\ IsSpace(s[Len(s)]) THEN RStrip(SubSeq(s, 1, Len(s) - 1)) ELSE s
\* str.strip()
Strip(s) == RStrip(LStrip(s))

AllDigits(s) == s # <<>> /\ \A i \in 1..Len(s) : IsDigit(s[i])
RECURSIVE DigitsVal(_)
DigitsVal(s) == IF s = <<>> THEN 0 ELSE 10 * DigitsVal(SubSeq(s, 1, Len(s) - 1)) + DigitVal(s[Len(s)])

\* int(text): surrounding blanks and one sign are accepted, then decimal digits;
\* anything else raises ValueError
UnsignedPart(s) == IF s # <<>> /\ Head(s) \in {"-", "+"} THEN Tail(s) ELSE s
IntParseOk(s) == AllDigits(UnsignedPart(Strip(s)))
IntParse(s) ==
    IF Strip(s) # <<>> /\ Head(Strip(s)) = "-"
    THEN 0 - DigitsVal(UnsignedPart(Strip(s)))
    ELSE DigitsVal(UnsignedPart(Strip(s)))

(***************************************************************************)
(* Python float: IEEE-754 binary64, round to nearest, ties to even.        *)
(* A finite non-zero value is s * M * 2^e with 2^52 <= M < 2^53; M is kept *)
(* as four 14-bit limbs, least significant first, because the products     *)
(* need 106 bits.                                                          *)
(***************************************************************************)
MantBits == 53
LimbBits == 14
Limb == 2 ^ LimbBits

RECURSIVE BTrim(_)
BTrim(a) == IF a # <<>> /\ a[Len(a)] = 0 THEN BTrim(SubSeq(a, 1, Len(a) - 1)) ELSE a

RECURSIVE BFromInt(_)
BFromInt(n) == IF n = 0 THEN <<>> ELSE <<n % Limb>> \o BFromInt(n \div Limb)

RECURSIVE BToInt(_)
BToInt(a) == IF a = <<>> THEN 0 ELSE Head(a) + Limb * BToInt(Tail(a))

RECURSIVE BAddC(_, _, _)
BAddC(a, b, c) ==
    IF a = <<>> /\ b = <<>> THEN (IF c = 0 THEN <<>> ELSE <<c>>)
    ELSE LET x == IF a = <<>> THEN 0 ELSE Head(a)
             y == IF b = <<>> THEN 0 ELSE Head(b)
             ra == IF a = <<>> THEN <<>> ELSE Tail(a)
             rb == IF b = <<>> THEN <<>> ELSE Tail(b)
         IN  <<(x + y + c) % Limb>> \o BAddC(ra, rb, (x + y + c) \div Limb)
BAdd(a, b) == BAddC(a, b, 0)

RECURSIVE BMulSmallC(_, _, _)
BMulSmallC(a, d, c) ==
    IF a = <<>> THEN (IF c = 0 THEN <<>> ELSE <<c>>)
    ELSE <<(Head(a) * d + c) % Limb>> \o BMulSmallC(Tail(a), d, (Head(a) * d + c) \div Limb)

RECURSIVE BMul(_, _)
BMul(a, b) ==
    IF b = <<>> THEN <<>>
    ELSE BTrim(BAdd(BMulSmallC(a, Head(b), 0), <<0>> \o BMul(a, Tail(b))))

RECURSIVE IntBitLen(_)
IntBitLen(n) == IF n = 0 THEN 0 ELSE 1 + IntBitLen(n \div 2)
BBitLen(a) ==
    LET t == BTrim(a)
    IN  IF t = <<>> THEN 0 ELSE LimbBits * (Len(t) - 1) + IntBitLen(t[Len(t)])

\* bit i (from 0) of a
BBit(a, i) ==
    IF i \div LimbBits + 1 > Len(a) THEN 0
    ELSE (a[i \div LimbBits + 1] \div (2 ^ (i % LimbBits))) % 2

\* floor(a / 2^s)
BShr(a, s) ==
    LET q == s \div LimbBits
        r == s % LimbBits
        d == IF q >= Len(a) THEN <<>> ELSE SubSeq(a, q + 1, Len(a))
    IN  BTrim([i \in 1..Len(d) |->
                 (d[i] \div (2 ^ r))
                 + (IF i < Len(d) THEN (d[i + 1] % (2 ^ r)) * (2 ^ (LimbBits - r)) ELSE 0)])

\* a * 2^s
BShl(a, s) ==
    LET q == s \div LimbBits
        r == s % LimbBits
    IN  BTrim([i \in 1..q |-> 0] \o BMulSmallC(a, 2 ^ r, 0))

\* whether the s lowest bits of a are all zero
BLowZero(a, s) == BShl(BShr(a, s), s) = BTrim(a)

Pad4(a) == [i \in 1..4 |-> IF i <= Len(a) THEN a[i] ELSE 0]

\* the binary64 nearest to p * 2^e (p > 0 a big integer), ties to even
FRound(p, e) ==
    LET l == BBitLen(p)
    IN  IF l <= MantBits
        THEN [k |-> "fin", s |-> 1, e |-> e - (MantBits - l), m |-> Pad4(BShl(p, MantBits - l))]
        ELSE LET sh == l - MantBits
                 q == BShr(p, sh)
                 up == BBit(p, sh - 1) = 1
                       /\ (~BLowZero(p, sh - 1) \/ BBit(q, 0) = 1)
                 q1 == IF up THEN BTrim(BAdd(q, <<1>>)) ELSE q
             IN  IF BBitLen(q1) > MantBits
                 THEN [k |-> "fin", s |-> 1, e |-> e + sh + 1, m |-> Pad4(BShr(q1, 1))]
                 ELSE [k |-> "fin", s |-> 1, e |-> e + sh, m |-> Pad4(q1)]

FNaN == [k |-> "nan", s |-> 1, e |-> 0, m |-> <<0, 0, 0, 0>>]
FInf(sg) == [k |-> "inf", s |-> sg, e |-> 0, m |-> <<0, 0, 0, 0>>]
FZero == [k |-> "zero", s |-> 1, e |-> 0, m |-> <<0, 0, 0, 0>>]

\* float(n) of an integer n
FFromInt(n) ==
    IF n = 0 THEN FZero
    ELSE IF n < 0 THEN [FRound(BFromInt(0 - n), 0) EXCEPT !.s = -1]
    ELSE FRound(BFromInt(n), 0)

\* the literals of the source as binary64
\* 0.8 = 0x1.999999999999ap-1
F08 == [k |-> "fin", s |-> 1, e |-> -53, m |-> <<6554, 9830, 6553, 1638>>]
\* 1.3 = 0x1.4cccccccccccdp+0
F13 == [k |-> "fin", s |-> 1, e |-> -52, m |-> <<3277, 13107, 3276, 1331>>]
\* 0.7 = 0x1.6666666666666p-1
F07 == [k |-> "fin", s |-> 1, e |-> -53, m |-> <<9830, 6553, 9830, 1433>>]

\* x * y for a positive finite, infinite or NaN x and a positive finite constant y
FMul(x, y) ==
    IF x.k = "nan" \/ y.k = "nan" THEN FNaN
    ELSE IF x.k = "inf" \/ y.k = "inf" THEN FInf(x.s * y.s)
    ELSE IF x.k = "zero" \/ y.k = "zero" THEN FZero
    ELSE [FRound(BMul(BTrim(x.m), BTrim(y.m)), x.e + y.e) EXCEPT !.s = x.s * y.s]

\* x <= 0 (False for NaN)
FLeZero(x) == x.k = "zero" \/ (x.k \in {"fin", "inf"} /\ x.s = -1)

\* int(x): truncation toward zero; ValueError for NaN, OverflowError for infinity
IntRaises(x) == x.k \in {"nan", "inf"}
FInt(x) ==
    IF x.k = "zero" THEN 0
    ELSE x.s * (IF x.e >= 0 THEN BToInt(BShl(BTrim(x.m), x.e))
                ELSE BToInt(BShr(BTrim(x.m), 0 - x.e)))

\* whether x is exactly the integer n
FIsInt(x, n) == x.k \in {"fin", "zero"} /\ x = FFromInt(n)

\* float(text) for the texts the model supplies: an integer literal with an
\* optional sign, "nan" or "inf"; other text raises ValueError
FloatWord(s) == Lower(UnsignedPart(Strip(s)))
FloatParseOk(s) ==
    \/ AllDigits(UnsignedPart(Strip(s)))
    \/ FloatWord(s) \in {<<"n", "a", "n">>, <<"i", "n", "f">>}
FloatParse(s) ==
    IF FloatWord(s) = <<"n", "a", "n">> THEN FNaN
    ELSE IF FloatWord(s) = <<"i", "n", "f">>
         THEN FInf(IF Head(Strip(s)) = "-" THEN -1 ELSE 1)
    ELSE FFromInt(IntParse(s))

(***************************************************************************)
(* datetime: an instant is twice the proleptic Gregorian ordinal of its    *)
(* day, plus one when it lies after midnight within that day.              *)
(***************************************************************************)
IsLeap(y) == (y % 4 = 0 /\ y % 100 # 0) \/ y % 400 = 0
DaysInMonth(y, m) ==
    IF m = 2 THEN (IF IsLeap(y) THEN 29 ELSE 28)
    ELSE IF m \in {4, 6, 9, 11} THEN 30 ELSE 31
RECURSIVE DaysBeforeMonth(_, _)
DaysBeforeMonth(y, m) == IF m = 1 THEN 0 ELSE DaysBeforeMonth(y, m - 1) + DaysInMonth(y, m - 1)
Ordinal(y, m, d) ==
    365 * (y - 1) + (y - 1) \div 4 - (y - 1) \div 100 + (y - 1) \div 400
    + DaysBeforeMonth(y, m) + d
\* datetime(y, m, d): midnight of that day
Datetime(y, m, d) == 2 * Ordinal(y, m, d)
\* an instant in the course of the day y-m-d
Napkozben(y, m, d) == Datetime(y, m, d) + 1

\* datetime.strptime(text, "%Y-%m-%d"): four digits, "-", one or two digits,
\* "-", one or two digits, naming a day of the calendar; else ValueError
DateParts(s) ==
    LET i1 == HelyBen("-", s, 1)
        i2 == IF i1 = 0 THEN 0 ELSE HelyBen("-", s, i1 + 1)
    IN  IF i2 = 0 THEN <<>>
        ELSE <<SubSeq(s, 1, i1 - 1), SubSeq(s, i1 + 1, i2 - 1), SubSeq(s, i2 + 1, Len(s))>>
StrptimeOk(s) ==
    LET p == DateParts(s)
    IN  /\ p # <<>>
        /\ Len(p[1]) = 4 /\ AllDigits(p[1]) /\ DigitsVal(p[1]) >= 1
        /\ Len(p[2]) \in 1..2 /\ AllDigits(p[2]) /\ DigitsVal(p[2]) \in 1..12
        /\ Len(p[3]) \in 1..2 /\ AllDigits(p[3])
        /\ DigitsVal(p[3]) \in 1..DaysInMonth(DigitsVal(p[1]), DigitsVal(p[2]))
Strptime(s) ==
    LET p == DateParts(s)
    IN  Datetime(DigitsVal(p[1]), DigitsVal(p[2]), DigitsVal(p[3]))

(***************************************************************************)
(* Járat, BelfoldiJarat, NemzetkoziJarat, JegyFoglalas                     *)
(***************************************************************************)
AKTIV == "AKTÍV"
INAKTIV == "INAKTÍV"

\* variant of JaratStatusz: a flight leaving at the very instant counts as active
JaratStatuszNemSzigoru(datum, t) == IF datum >= t THEN AKTIV ELSE INAKTIV

\* the status a flight dated datum gets when constructed at instant t
JaratStatusz(datum, t) == IF datum > t THEN AKTIV ELSE INAKTIV

\* Jarat.__init__, with the subclass's type label and flight time; t is
\* datetime.now() at construction
Jarat(jaratszam, indulo_repter, celallomas, jegyar, legi, datum, tipus, ido, t) ==
    [jaratszam |-> jaratszam, indulo_repter |-> indulo_repter,
     celallomas |-> celallomas, jegyar |-> jegyar, legitarsasag |-> legi,
     datum |-> datum, statusz |-> JaratStatusz(datum, t),
     tipus |-> tipus, repulesi_ido |-> ido]

\* variant of BelfoldiAr: the international multiplier
BelfoldiArNemzetkozi(ar) == FMul(ar, F13)
\* BelfoldiJarat.__init__ line 70 and NemzetkoziJarat.__init__ line 81
BelfoldiAr(ar) == FMul(ar, F08)
NemzetkoziAr(ar) == FMul(ar, F13)

BelfoldiJarat(jaratszam, indulo, cel, ar, legi, datum, t) ==
    Jarat(jaratszam, indulo, cel, BelfoldiAr(ar), legi, datum, "Belföldi", 2, t)
NemzetkoziJarat(jaratszam, indulo, cel, ar, legi, datum, t) ==
    Jarat(jaratszam, indulo, cel, NemzetkoziAr(ar), legi, datum, "Nemzetközi", 8, t)

\* Jarat.__str__ and JegyFoglalas.__str__ format int(price): they raise for a
\* price that is NaN (ValueError) or infinite (OverflowError)
StrRaises(x) == IntRaises(x.ar)
JaratStrRaises(j) == IntRaises(j.jegyar)

\* variant of JaratszamLetezik: only the first flight is compared
JaratszamLetezikElso(lista, jaratszam) == lista # <<>> /\ lista[1].jaratszam = jaratszam
\* variant of JaratHozzaadasa: the new flight goes to the front
JaratHozzaadasaElore(lista, jarat) ==
    IF \E i \in 1..Len(lista) : lista[i].jaratszam = jarat.jaratszam
    THEN lista ELSE <<jarat>> \o lista

\* Legitarsasag.jarat_hozzaadasa: whether it raises ValueError, and the list after
JaratszamLetezik(lista, jaratszam) == \E i \in 1..Len(lista) : lista[i].jaratszam = jaratszam
JaratHozzaadasa(lista, jarat) ==
    IF JaratszamLetezik(lista, jarat.jaratszam) THEN lista ELSE Append(lista, jarat)

\* variant of JegyFoglalas: origin and destination change places
JegyFoglalasForditva(jarat, utas_nev, id) ==
    [foglalas_id |-> id, jaratszam |-> jarat.jaratszam, indulo |-> jarat.celallomas,
     celallomas |-> jarat.indulo_repter, datum |-> jarat.datum, utas_nev |-> utas_nev,
     ar |-> jarat.jegyar, statusz |-> "Aktív"]

\* JegyFoglalas.__init__ with the identifier _generate_foglalas_id returned
JegyFoglalas(jarat, utas_nev, id) ==
    [foglalas_id |-> id, jaratszam |-> jarat.jaratszam, indulo |-> jarat.indulo_repter,
     celallomas |-> jarat.celallomas, datum |-> jarat.datum, utas_nev |-> utas_nev,
     ar |-> jarat.jegyar, statusz |-> "Aktív"]

\* string.ascii_uppercase and string.digits
AsciiUppercase == {"A", "B", "C", "D", "E", "F", "G", "H", "I", "J", "K", "L", "M",
                   "N", "O", "P", "Q", "R", "S", "T", "U", "V", "W", "X", "Y", "Z"}
Digits == {"0", "1", "2", "3", "4", "5", "6", "7", "8", "9"}

\* _generate_foglalas_id: two of ascii_uppercase then three of digits, here
\* from the sub-alphabets BetuSor and SzamSor
BetuSor == <<"Q">>
SzamSor == <<"0", "1">>
GeneraltIds ==
    {<<BetuSor[a], BetuSor[b], SzamSor[c], SzamSor[d], SzamSor[e]>> :
        a \in 1..Len(BetuSor), b \in 1..Len(BetuSor),
        c \in 1..Len(SzamSor), d \in 1..Len(SzamSor), e \in 1..Len(SzamSor)}
\* the same identifiers in a fixed order
IdSzam == Len(BetuSor) * Len(BetuSor) * Len(SzamSor) * Len(SzamSor) * Len(SzamSor)
IdSor ==
    [i \in 1..IdSzam |->
        LET n == i - 1
            z == Len(SzamSor)
            b == Len(BetuSor)
        IN  <<BetuSor[(((n \div (z * z * z)) \div b) % b) + 1],
              BetuSor[((n \div (z * z * z)) % b) + 1],
              SzamSor[((n \div (z * z)) % z) + 1],
              SzamSor[((n \div z) % z) + 1],
              SzamSor[(n % z) + 1]>>]
\* The outcomes of a draw the model follows: an identifier already in use
\* (a collision), or the first one of IdSor not in use yet.
RECURSIVE ElsoUj(_, _)
ElsoUj(hasznalt, i) ==
    IF i > IdSzam THEN {}
    ELSE IF IdSor[i] \notin hasznalt THEN {IdSor[i]} ELSE ElsoUj(hasznalt, i + 1)
Sorsolhato(hasznalt) == hasznalt \cup ElsoUj(hasznalt, 1)

(***************************************************************************)
(* The texts of _init_test_adatok                                          *)
(***************************************************************************)
WIZ001 == <<"W", "I", "Z", "0", "0", "1">>
WIZ102 == <<"W", "I", "Z", "1", "0", "2">>
WIZ201 == <<"W", "I", "Z", "2", "0", "1">>
Budapest == <<"B", "u", "d", "a", "p", "e", "s", "t">>
Debrecen == <<"D", "e", "b", "r", "e", "c", "e", "n">>
Szeged == <<"S", "z", "e", "g", "e", "d">>
London == <<"L", "o", "n", "d", "o", "n">>
WizzAir == <<"W", "i", "z", "z", " ", "A", "i", "r">>
NagyJanos == <<"N", "a", "g", "y", " ", "J", "á", "n", "o", "s">>
KovacsBela == <<"K", "o", "v", "á", "c", "s", " ", "B", "é", "l", "a">>
SzaboEva == <<"S", "z", "a", "b", "ó", " ", "É", "v", "a">>
KissZoltan == <<"K", "i", "s", "s", " ", "Z", "o", "l", "t", "á", "n">>
TothMaria == <<"T", "ó", "t", "h", " ", "M", "á", "r", "i", "a">>
HorvathPeter == <<"H", "o", "r", "v", "á", "t", "h", " ", "P", "é", "t", "e", "r">>

None == <<>>
\* a Legitarsasag object, known by its nev
Legitarsasag(nev) == <<nev>>

(***************************************************************************)
(* What the user types and when the program runs                           *)
(***************************************************************************)
\* the instants the clock takes: before the seeded flights of 2025 leave,
\* the very instant of WIZ102's date, and after all seeded dates
Orak == {Napkozben(2025, 6, 9), Datetime(2025, 6, 10), Napkozben(2026, 11, 1)}

MenuSzovegek == {<<"1">>, <<" ", "2">>, <<"3">>, <<"4", " ">>, <<"5">>, <<"6">>, <<"7">>,
                 <<"8">>}
ValasztasSzovegek == {<<"1">>, <<" ", "2", " ">>, <<"0">>, <<"3">>, <<"a">>}
NevSzovegek == {<<" ", "A", "b", " ">>, <<" ", "A", " ">>, <<>>}
MegerositesSzovegek == {<<" ", "I", " ">>, <<"n">>, <<>>}
\* identifiers as typed: the first, sixth and seventh of IdSor in
\* lower case with blanks around, and a text that is no identifier
AzonositoSzovegek ==
    {<<" ">> \o Lower(IdSor[i]) \o <<" ">> : i \in {1, 6, 7}} \cup {<<"z", "z">>}
JaratszamSzovegek == {WIZ102, <<" ", "w", "i", "z", "9", "0", "0">>, <<"W", "I", "Z", "9", "0", "0">>}
ArSzovegek == {<<"2", "2", "5">>, <<"n", "a", "n">>, <<"0">>, <<"a", "b">>}
DatumSzovegek == {<<"2", "0", "2", "5", "-", "0", "6", "-", "1", "2">>,
                  <<"2", "0", "2", "5", "/", "1", "3", "/", "4", "0">>}
TipusSzovegek == {<<"1">>, <<" ", "2">>, <<"3">>}
IndulasSzoveg == <<" ", "B", "u", "d", "a", "p", "e", "s", "t">>
CelSzoveg == <<"W", "i", "e", "n", " ">>
LegitarsasagSzoveg == <<"W", "i", "z", "z", " ", "A", "i", "r">>

\* the texts as the handlers see them after strip(), upper() and lower()
MenuValasztasok == {Strip(v) : v \in MenuSzovegek}
UtasNevek == {Strip(n) : n \in NevSzovegek}
Megerositesek == {Lower(Strip(m)) : m \in MegerositesSzovegek}
FoglalasAzonositok == {Upper(Strip(a)) : a \in AzonositoSzovegek}
Jaratszamok == {Upper(Strip(j)) : j \in JaratszamSzovegek}
Datumok == {Strip(d) : d \in DatumSzovegek}
Tipusok == {Strip(t) : t \in TipusSzovegek}

\* bounds
MaxFoglalas == 7
SeedMintak == {<<1, 2, 3, 4, 5, 6>>, <<1, 2, 1, 3, 4, 5>>}
\* the draws of the six seeded bookings: all different, or the first and the
\* third equal (one on WIZ102, one on WIZ201)
SeedHuzasok == {[i \in 1..6 |-> IdSor[h[i]]] : h \in SeedMintak}

(***************************************************************************)
(* RepuloJegyFoglalasiRendszer                                             *)
(***************************************************************************)
\* kimenet is the terminal after the last operation: which operation ran, the
\* message it printed, and in adat the texts it was given and the values shown
Ki(muvelet, uzenet, adat) == [muvelet |-> muvelet, uzenet |-> uzenet, adat |-> adat]
\* adat: the identifier or flight number read or shown (azonosito), the text
\* typed at the operation's prompt, the flight selection or the confirmation
\* (valasz), the amount printed (osszeg), the counts printed (darab) and the
\* flight numbers listed (sorok)
Semmi == [azonosito |-> <<>>, valasz |-> <<>>, osszeg |-> 0, darab |-> <<>>, sorok |-> <<>>]
Adat(azonosito, valasz, osszeg) == [Semmi EXCEPT !.azonosito = azonosito, !.valasz = valasz, !.osszeg = osszeg]
Darabok(darab) == [Semmi EXCEPT !.darab = darab]
Sorok(sorok) == [Semmi EXCEPT !.sorok = sorok]

\* a handler that prints a message and returns without touching the data
Marad(muvelet, uzenet, adat) ==
    /\ kimenet' = Ki(muvelet, uzenet, adat)
    /\ UNCHANGED <<legitarsasag, jaratok, foglalasok, existing_foglalas_ids, now, pc, fuggo>>

\* an exception nobody catches leaves futtatas: the process ends
Osszeomlik(muvelet) ==
    /\ pc' = "osszeomlott"
    /\ kimenet' = Ki(muvelet, "kivetel", Semmi)
    /\ UNCHANGED <<legitarsasag, jaratok, foglalasok, existing_foglalas_ids, now, fuggo>>

\* __init__: no airline, no bookings, no identifiers; the program starts at
\* some instant
Init == /\ legitarsasag = None
        /\ jaratok = <<>>
        /\ foglalasok = <<>>
        /\ existing_foglalas_ids = {}
        /\ now \in Orak
        /\ pc = "init"
        /\ fuggo = <<>>
        /\ kimenet = Ki("init", "", Semmi)

\* the three flights _init_test_adatok adds, constructed at instant t
TesztJaratok(t) ==
    JaratHozzaadasa(
        JaratHozzaadasa(
            JaratHozzaadasa(<<>>,
                BelfoldiJarat(WIZ001, Budapest, Debrecen, FFromInt(15000), WizzAir,
                              Datetime(2023, 1, 1), t)),
            BelfoldiJarat(WIZ102, Budapest, Szeged, FFromInt(20000), WizzAir,
                          Datetime(2025, 6, 10), t)),
        NemzetkoziJarat(WIZ201, Budapest, London, FFromInt(50000), WizzAir,
                        Datetime(2025, 6, 15), t))

\* the six bookings _init_test_adatok appends, with the identifiers h drawn
TesztFoglalasok(lista, h) ==
    <<JegyFoglalas(lista[2], NagyJanos, h[1]),
      JegyFoglalas(lista[2], KovacsBela, h[2]),
      JegyFoglalas(lista[3], SzaboEva, h[3]),
      JegyFoglalas(lista[3], KissZoltan, h[4]),
      JegyFoglalas(lista[3], TothMaria, h[5]),
      JegyFoglalas(lista[3], HorvathPeter, h[6])>>

\* variant of FoglalasIds: the first booking's identifier is left out
FoglalasIdsElsoNelkul(lista) == {lista[i].foglalas_id : i \in 2..Len(lista)}
\* _init_test_adatok lines 166-167
FoglalasIds(lista) == {lista[i].foglalas_id : i \in 1..Len(lista)}

\* futtatas up to the menu: _init_test_adatok
InitTestAdatok ==
    /\ pc = "init"
    /\ \E h \in SeedHuzasok :
        /\ legitarsasag' = Legitarsasag(<<"W", "i", "z", "z", " ", "A", "i", "r", " ",
                                          "H", "u", "n", "g", "a", "r", "y">>)
        /\ jaratok' = TesztJaratok(now)
        /\ foglalasok' = TesztFoglalasok(jaratok', h)
        /\ existing_foglalas_ids' = FoglalasIds(foglalasok')
    /\ pc' = "menu"
    /\ kimenet' = Ki("init", "betoltve", Semmi)
    /\ UNCHANGED <<now, fuggo>>

\* time passes while the menu waits for input
Tick ==
    /\ pc = "menu"
    /\ \E t \in Orak : t > now /\ now' = t
    /\ UNCHANGED <<legitarsasag, jaratok, foglalasok, existing_foglalas_ids, pc, fuggo, kimenet>>

\* the menu choice typed: input().strip()
Valasztott(c) == <<c>> \in MenuValasztasok

\* jegy_foglalas line 195: the flight's date has passed
DatumElmult(jarat, t) == jarat.datum < t
\* variant of AktivJaratok: every flight is offered
AktivJaratokMind(lista) == lista
\* jegy_foglalas line 174
AktivJaratok(lista) == SelectSeq(lista, LAMBDA j : j.statusz = AKTIV)

\* variant of NevTulRovid: only the empty name is refused
NevTulRovidUres(utas_nev) == Len(utas_nev) < 1
\* jegy_foglalas line 202
NevTulRovid(utas_nev) == Len(utas_nev) < 2
\* jegy_foglalas line 210: the identifier is taken
Utkozik(id, ids) == id \in ids

\* jegy_foglalas lines 213-218: the booking is recorded and reported
Rogzit(foglalas, valasztas) ==
    /\ existing_foglalas_ids' = existing_foglalas_ids \cup {foglalas.foglalas_id}
    /\ foglalasok' = Append(foglalasok, foglalas)
    /\ kimenet' = Ki("foglalas", "siker",
                     Adat(foglalas.foglalas_id, valasztas, FInt(foglalas.ar)))
    /\ pc' = "menu"
    /\ fuggo' = <<>>
    /\ UNCHANGED <<legitarsasag, jaratok, now>>

\* menu 1, jegy_foglalas, up to the first identifier drawn; the passenger's
\* name is read only after the selection passed its checks
JegyFoglalasLepes ==
    /\ pc = "menu"
    /\ Valasztott("1")
    /\ LET aktiv_jaratok == AktivJaratok(jaratok)
       IN  IF legitarsasag = None \/ jaratok = <<>>
           THEN Marad("foglalas", "nincs_jarat", Semmi)
           ELSE IF aktiv_jaratok = <<>>
           THEN Marad("foglalas", "nincs_aktiv", Semmi)
           ELSE IF \E k \in 1..Len(aktiv_jaratok) : JaratStrRaises(aktiv_jaratok[k])
           THEN Osszeomlik("foglalas")
           ELSE \E valasztas \in ValasztasSzovegek :
             IF ~IntParseOk(valasztas)
             THEN Marad("foglalas", "ervenytelen_bemenet", Adat(<<>>, valasztas, 0))
             ELSE IF IntParse(valasztas) < 1 \/ IntParse(valasztas) > Len(aktiv_jaratok)
             THEN Marad("foglalas", "ervenytelen_valasztas", Adat(<<>>, valasztas, 0))
             ELSE LET kivalasztott_jarat == aktiv_jaratok[IntParse(valasztas)]
                  IN  IF DatumElmult(kivalasztott_jarat, now)
                      THEN Marad("foglalas", "elmult",
                                 Adat(kivalasztott_jarat.jaratszam, valasztas, 0))
                      ELSE \E utas_nev \in UtasNevek :
                        IF NevTulRovid(utas_nev)
                        THEN Marad("foglalas", "rovid_nev", Adat(<<>>, valasztas, 0))
                        ELSE \E id \in Sorsolhato(existing_foglalas_ids) :
                          IF Utkozik(id, existing_foglalas_ids)
                          THEN /\ pc' = "ujra"
                               /\ fuggo' = <<[jarat |-> kivalasztott_jarat,
                                              utas_nev |-> utas_nev,
                                              valasztas |-> valasztas]>>
                               /\ kimenet' = Ki("foglalas", "utkozes",
                                                Adat(<<>>, valasztas, 0))
                               /\ UNCHANGED <<legitarsasag, jaratok, foglalasok,
                                              existing_foglalas_ids, now>>
                          ELSE Rogzit(JegyFoglalas(kivalasztott_jarat, utas_nev, id),
                                      valasztas)

\* the model follows the program while fewer than MaxFoglalas bookings exist
JegyFoglalasMenu ==
    /\ Len(foglalasok) < MaxFoglalas
    /\ JegyFoglalasLepes

\* jegy_foglalas lines 210-211: one more turn of the regeneration loop
Ujrageneralas(id) ==
    /\ pc = "ujra"
    /\ IF Utkozik(id, existing_foglalas_ids)
       THEN UNCHANGED vars
       ELSE Rogzit(JegyFoglalas(fuggo[1].jarat, fuggo[1].utas_nev, id), fuggo[1].valasztas)

\* foglalas_lemondasa lines 233-234: the first booking with that identifier
\* that is active, 0 when there is none
RECURSIVE ElsoAktivFoglalas(_, _, _)
ElsoAktivFoglalas(lista, foglalas_id, i) ==
    IF i > Len(lista) THEN 0
    ELSE IF lista[i].foglalas_id = foglalas_id /\ lista[i].statusz = "Aktív" THEN i
    ELSE ElsoAktivFoglalas(lista, foglalas_id, i + 1)

\* variant of Megerositve: anything but "n" confirms
MegerositveHaNemN(megerosites) == megerosites # <<"n">>
\* variant of Lemondva: the booking is dropped from the list
LemondvaTorlessel(lista, i) == SubSeq(lista, 1, i - 1) \o SubSeq(lista, i + 1, Len(lista))

\* foglalas_lemondasa line 239
Megerositve(megerosites) == megerosites = <<"i">>
\* foglalas_lemondasa line 240
Lemondva(lista, i) == [lista EXCEPT ![i].statusz = "Lemondva"]
\* foglalas_lemondasa line 241
Visszaterites(ar) == FMul(ar, F07)

\* menu 2, foglalas_lemondasa; the confirmation is read only when an active
\* booking carries the identifier
FoglalasLemondasa ==
    /\ pc = "menu"
    /\ Valasztott("2")
    /\ IF foglalasok = <<>>
       THEN Marad("lemondas", "nincs_foglalas", Semmi)
       ELSE \E foglalas_id \in FoglalasAzonositok :
         \E i \in {ElsoAktivFoglalas(foglalasok, foglalas_id, 1)} :
             IF i = 0
             THEN Marad("lemondas", "nem_talalhato", Adat(foglalas_id, <<>>, 0))
             ELSE IF StrRaises(foglalasok[i])
             THEN Osszeomlik("lemondas")
             ELSE \E megerosites \in Megerositesek :
               IF Megerositve(megerosites)
               THEN /\ foglalasok' = Lemondva(foglalasok, i)
                    /\ kimenet' = Ki("lemondas", "lemondva",
                                     Adat(foglalas_id, megerosites,
                                          FInt(Visszaterites(foglalasok[i].ar))))
                    /\ UNCHANGED <<legitarsasag, jaratok, existing_foglalas_ids,
                                   now, pc, fuggo>>
               ELSE Marad("lemondas", "megszakitva", Adat(foglalas_id, megerosites, 0))

\* variant of Szamol: the first element is not looked at
SzamolElsoNelkul(lista, mezo, ertek) == Cardinality({i \in 2..Len(lista) : lista[i][mezo] = ertek})
\* len([x for x in lista if x.<mezo> == ertek])
Szamol(lista, mezo, ertek) == Cardinality({i \in 1..Len(lista) : lista[i][mezo] = ertek})

\* menu 3, foglalasok_listazasa
FoglalasokListazasa ==
    /\ pc = "menu"
    /\ Valasztott("3")
    /\ IF foglalasok = <<>>
       THEN Marad("foglalasok", "nincs_foglalas", Semmi)
       ELSE IF \E i \in 1..Len(foglalasok) : StrRaises(foglalasok[i])
       THEN Osszeomlik("foglalasok")
       ELSE Marad("foglalasok", "lista",
                  Darabok(<<Len(foglalasok),
                            Szamol(foglalasok, "statusz", "Aktív"),
                            Szamol(foglalasok, "statusz", "Lemondva")>>))

\* menu 5, jaratok_listazasa
JaratokListazasa ==
    /\ pc = "menu"
    /\ Valasztott("5")
    /\ IF legitarsasag = None \/ jaratok = <<>>
       THEN Marad("jaratok", "nincs_jarat", Semmi)
       ELSE IF \E i \in 1..Len(jaratok) : JaratStrRaises(jaratok[i])
       THEN Osszeomlik("jaratok")
       ELSE Marad("jaratok", "lista", Sorok([i \in 1..Len(jaratok) |-> jaratok[i].jaratszam]))

\* menu 4, uj_jarat_hozzaadasa; each text is read when the handler reaches
\* its input() call
UjJaratHozzaadasa ==
    /\ pc = "menu"
    /\ Valasztott("4")
    /\ IF legitarsasag = None
       THEN Marad("uj_jarat", "nincs_legitarsasag", Semmi)
       ELSE \E jaratszam \in Jaratszamok, ar_be \in ArSzovegek :
         IF ~FloatParseOk(ar_be)
         THEN Marad("uj_jarat", "ervenytelen_ar", Semmi)
         ELSE \E ar \in {FloatParse(ar_be)} :
           IF FLeZero(ar)
           THEN Marad("uj_jarat", "nem_pozitiv", Semmi)
           ELSE \E datum_be \in Datumok :
             IF ~StrptimeOk(datum_be)
             THEN Marad("uj_jarat", "ervenytelen_datum", Semmi)
             ELSE \E tipus \in Tipusok :
               IF tipus \notin {<<"1">>, <<"2">>}
               THEN Marad("uj_jarat", "ervenytelen_tipus", Semmi)
               ELSE IF JaratszamLetezik(jaratok, jaratszam)
               \* jarat_hozzaadasa raises ValueError, line 324 reports it
               THEN Marad("uj_jarat", "duplikalt", Adat(jaratszam, <<>>, 0))
               ELSE \E uj_jarat \in
                      {IF tipus = <<"1">>
                       THEN BelfoldiJarat(jaratszam, Strip(IndulasSzoveg), Strip(CelSzoveg),
                                          ar, Strip(LegitarsasagSzoveg),
                                          Strptime(datum_be), now)
                       ELSE NemzetkoziJarat(jaratszam, Strip(IndulasSzoveg), Strip(CelSzoveg),
                                            ar, Strip(LegitarsasagSzoveg),
                                            Strptime(datum_be), now)} :
                    /\ jaratok' = JaratHozzaadasa(jaratok, uj_jarat)
                    \* line 322 prints the flight after it was added: __str__
                    \* raises for a NaN or infinite price, and the handler's
                    \* except clauses report it
                    /\ kimenet' = Ki("uj_jarat",
                                     IF JaratStrRaises(uj_jarat) THEN "hiba" ELSE "hozzaadva",
                                     Adat(jaratszam, <<>>, 0))
                    /\ UNCHANGED <<legitarsasag, foglalasok, existing_foglalas_ids,
                                   now, pc, fuggo>>

\* menu 6, rendszer_allapota
RendszerAllapota ==
    /\ pc = "menu"
    /\ Valasztott("6")
    /\ IF legitarsasag = None
       THEN Marad("allapot", "nincs_legitarsasag", Semmi)
       ELSE Marad("allapot", "allapot",
                  Darabok(<<Len(jaratok),
                    Szamol(jaratok, "statusz", AKTIV),
                    Szamol(jaratok, "tipus", "Belföldi"),
                    Szamol(jaratok, "tipus", "Nemzetközi"),
                    Len(foglalasok),
                    Szamol(foglalasok, "statusz", "Aktív"),
                    Szamol(foglalasok, "statusz", "Lemondva")>>))

\* menu 7: the loop breaks
Kilepes ==
    /\ pc = "menu"
    /\ Valasztott("7")
    /\ pc' = "kilepett"
    /\ kimenet' = Ki("kilepes", "koszonjuk", Semmi)
    /\ UNCHANGED <<legitarsasag, jaratok, foglalasok, existing_foglalas_ids, now, fuggo>>

\* any other menu text
ErvenytelenMenu ==
    /\ pc = "menu"
    /\ \E v \in MenuValasztasok :
         v \notin {<<"1">>, <<"2">>, <<"3">>, <<"4">>, <<"5">>, <<"6">>, <<"7">>}
    /\ Marad("menu", "ervenytelen_valasztas", Semmi)

Next ==
    \/ InitTestAdatok
    \/ Tick
    \/ JegyFoglalasMenu
    \/ \E id \in Sorsolhato(existing_foglalas_ids) : Ujrageneralas(id)
    \/ FoglalasLemondasa
    \/ FoglalasokListazasa
    \/ UjJaratHozzaadasa
    \/ JaratokListazasa
    \/ RendszerAllapota
    \/ Kilepes
    \/ ErvenytelenMenu

Spec == Init /\ [][Next]_vars

(***************************************************************************)
(* Properties                                                              *)
(***************************************************************************)
Seeded == pc # "init"
Utolso(lista) == lista[Len(lista)]
VanLemondott == \E i \in 1..Len(foglalasok) : foglalasok[i].statusz = "Lemondva"

\* [A-Z]{2}[0-9]{3}
IdFormatumOk(id) ==
    /\ Len(id) = 5
    /\ id[1] \in AsciiUppercase /\ id[2] \in AsciiUppercase
    /\ id[3] \in Digits /\ id[4] \in Digits /\ id[5] \in Digits

\* C1: after seeding and any menu operations, every booking identifier is two
\* upper-case letters and three digits, and no two bookings of the list share
\* an identifier.
C1_AzonositokEgyediek ==
    /\ \A i \in 1..Len(foglalasok) : IdFormatumOk(foglalasok[i].foglalas_id)
    /\ \A i, j \in 1..Len(foglalasok) :
         i # j => foglalasok[i].foglalas_id # foglalasok[j].foglalas_id

\* a step in which foglalas_lemondasa ran and was given identifier x
LemondasLepes(x) ==
    /\ kimenet'.muvelet = "lemondas"
    /\ kimenet'.adat.azonosito = x
    /\ (kimenet' # kimenet \/ foglalasok' # foglalasok)

\* C2: once a booking with identifier x has been cancelled, a later cancel
\* given x reports that no active booking was found, changes no booking and
\* pays no second refund.
C2_MasodikLemondasElutasitva ==
    [][\A x \in FoglalasAzonositok :
         ((\E i \in 1..Len(foglalasok) :
              foglalasok[i].foglalas_id = x /\ foglalasok[i].statusz = "Lemondva")
          /\ LemondasLepes(x))
         => (kimenet'.uzenet = "nem_talalhato" /\ foglalasok' = foglalasok)]_vars

\* C3: no booking ever leaves the list or moves in it; an existing booking
\* changes only by its status going from active to cancelled, and only in a
\* step of a confirmed cancellation; a cancelled booking stays cancelled.
C3_StatuszEgyiranyu ==
    [][/\ Len(foglalasok') >= Len(foglalasok)
       /\ \A i \in 1..Len(foglalasok) :
            \/ foglalasok'[i] = foglalasok[i]
            \/ /\ foglalasok[i].statusz = "Aktív"
               /\ foglalasok'[i] = [foglalasok[i] EXCEPT !.statusz = "Lemondva"]
               /\ kimenet'.muvelet = "lemondas"
               /\ kimenet'.uzenet = "lemondva"]_vars

\* a booking was made after a cancellation, and the cancelled one is still there
C3_Tanu ==
    /\ VanLemondott
    /\ kimenet.muvelet = "foglalas" /\ kimenet.uzenet = "siker"

\* C4: no two flights of the airline carry the same flight number.
C4_JaratszamEgyedi ==
    \A i, j \in 1..Len(jaratok) : i # j => jaratok[i].jaratszam # jaratok[j].jaratszam

\* a fourth flight has just been added
C4_Tanu ==
    /\ Len(jaratok) = 4
    /\ kimenet.muvelet = "uj_jarat" /\ kimenet.uzenet = "hozzaadva"

\* C5: in a step of the add-flight operation that got as far as
\* jarat_hozzaadasa with flight number n: if n was the number of a flight in
\* the list, the duplicate is reported and flights, bookings and identifiers
\* are unchanged; otherwise the list grows by one flight numbered n at its
\* end and the earlier flights keep their places.
C5_DuplikaltElutasitva ==
    [][(/\ kimenet'.muvelet = "uj_jarat"
        /\ kimenet'.uzenet \in {"duplikalt", "hozzaadva", "hiba"}
        /\ kimenet' # kimenet \/ jaratok' # jaratok)
       => LET n == kimenet'.adat.azonosito
          IN  IF \E i \in 1..Len(jaratok) : jaratok[i].jaratszam = n
              THEN /\ kimenet'.uzenet = "duplikalt"
                   /\ UNCHANGED <<jaratok, foglalasok, existing_foglalas_ids>>
              ELSE /\ kimenet'.uzenet # "duplikalt"
                   /\ Len(jaratok') = Len(jaratok) + 1
                   /\ SubSeq(jaratok', 1, Len(jaratok)) = jaratok
                   /\ Utolso(jaratok').jaratszam = n
                   /\ UNCHANGED <<foglalasok, existing_foglalas_ids>>]_vars

\* the number of the flight added earlier was offered again and refused
C5_Tanu ==
    /\ Len(jaratok) = 4
    /\ kimenet.muvelet = "uj_jarat" /\ kimenet.uzenet = "duplikalt"
    /\ kimenet.adat.azonosito = jaratok[4].jaratszam

\* C6: a booking is created, and an identifier recorded as used, only for a
\* flight whose date is strictly after the current time.
C6_NemJovobeliElutasitva ==
    [][(Seeded /\ (Len(foglalasok') # Len(foglalasok)
                   \/ existing_foglalas_ids' # existing_foglalas_ids))
       => Utolso(foglalasok').datum > now]_vars

\* C7: a book-a-ticket operation whose trimmed passenger name has fewer than
\* two characters leaves bookings, identifiers and flights as they were: the
\* report of a short name changes nothing, and whenever a booking is appended
\* or an identifier recorded, it is one booking, under a trimmed name of at
\* least two characters, with its identifier the one recorded.
C7_RovidNevNemFoglal ==
    [][/\ (kimenet'.muvelet = "foglalas" /\ kimenet'.uzenet = "rovid_nev")
          => UNCHANGED <<foglalasok, existing_foglalas_ids, jaratok>>
       /\ kimenet'.muvelet = "foglalas" => jaratok' = jaratok
       /\ (Seeded /\ (Len(foglalasok') # Len(foglalasok)
                      \/ existing_foglalas_ids' # existing_foglalas_ids))
          => /\ Len(foglalasok') = Len(foglalasok) + 1
             /\ Len(Utolso(foglalasok').utas_nev) >= 2
             /\ Utolso(foglalasok').utas_nev = Strip(Utolso(foglalasok').utas_nev)
             /\ existing_foglalas_ids' =
                  existing_foglalas_ids \cup {Utolso(foglalasok').foglalas_id}]_vars

\* a short name has just been refused
C7_Tanu == kimenet.muvelet = "foglalas" /\ kimenet.uzenet = "rovid_nev"

\* C8: a cancel that was not confirmed, or whose identifier matched no active
\* booking, changes no booking, identifier or flight; and a booking's status
\* changes only in a cancel that was confirmed with "i" and was given the
\* identifier of a booking that was active.
C8_MegNemErositettLemondas ==
    [][/\ (kimenet'.muvelet = "lemondas"
           /\ kimenet'.uzenet \in {"megszakitva", "nem_talalhato"})
          => UNCHANGED <<foglalasok, existing_foglalas_ids, jaratok>>
       /\ kimenet'.muvelet = "lemondas"
          => UNCHANGED <<existing_foglalas_ids, jaratok>>
       /\ (\/ Len(foglalasok') < Len(foglalasok)
           \/ \E i \in 1..Len(foglalasok) : foglalasok'[i].statusz # foglalasok[i].statusz)
          => /\ kimenet'.muvelet = "lemondas"
             /\ kimenet'.uzenet = "lemondva"
             /\ kimenet'.adat.valasz = <<"i">>
             /\ \E i \in 1..Len(foglalasok) :
                  /\ foglalasok[i].foglalas_id = kimenet'.adat.azonosito
                  /\ foglalasok[i].statusz = "Aktív"]_vars

\* after a cancellation, another cancel was answered with an empty line
C8_Tanu ==
    /\ VanLemondott
    /\ kimenet.muvelet = "lemondas" /\ kimenet.uzenet = "megszakitva"
    /\ kimenet.adat.valasz = <<>>

RECURSIVE BLessFrom(_, _, _)
BLessFrom(x, y, i) ==
    IF i = 0 THEN FALSE
    ELSE IF x[i] # y[i] THEN x[i] < y[i] ELSE BLessFrom(x, y, i - 1)
\* a < b for big integers
BLess(a, b) ==
    IF Len(BTrim(a)) # Len(BTrim(b)) THEN Len(BTrim(a)) < Len(BTrim(b))
    ELSE BLessFrom(BTrim(a), BTrim(b), Len(BTrim(a)))

\* r is 0.7 times the price ar in whole forints: 10 r <= 7 ar < 10 (r + 1),
\* for a positive finite ar = m * 2^e
HetvenSzazalek(r, ar) ==
    LET het == BMulSmallC(BTrim(ar.m), 7, 0)
        jobb == IF ar.e <= 0 THEN het ELSE BShl(het, ar.e)
        bal(n) == IF ar.e <= 0 THEN BShl(BFromInt(n), 0 - ar.e) ELSE BFromInt(n)
    IN  ~BLess(jobb, bal(10 * r)) /\ BLess(jobb, bal(10 * (r + 1)))

RECURSIVE ElsoAktivIndex(_, _)
ElsoAktivIndex(x, i) ==
    IF i > Len(foglalasok) THEN 0
    ELSE IF foglalasok[i].foglalas_id = x /\ foglalasok[i].statusz = "Aktív" THEN i
    ELSE ElsoAktivIndex(x, i + 1)

\* C9: a confirmed cancel of identifier x sets to cancelled the first active
\* booking with identifier x, changes no other booking and nothing else, and
\* reports as refund 0.7 times that booking's price (in the whole forints the
\* program prints).
C9_LemondasEsVisszaterites ==
    [][(/\ kimenet'.muvelet = "lemondas"
        /\ kimenet'.uzenet = "lemondva"
        /\ kimenet' # kimenet \/ foglalasok' # foglalasok)
       => LET i == ElsoAktivIndex(kimenet'.adat.azonosito, 1)
          IN  /\ i # 0
              /\ foglalasok' = [foglalasok EXCEPT ![i].statusz = "Lemondva"]
              /\ UNCHANGED <<legitarsasag, jaratok, existing_foglalas_ids, pc>>
              /\ HetvenSzazalek(kimenet'.adat.osszeg, foglalasok[i].ar)]_vars

\* C10: a flight gets status active exactly when its date is strictly after
\* the time of its construction, inactive otherwise, and no step changes the
\* status (or anything else) of a flight that exists.
C10_JaratStatuszRogzitett ==
    [][/\ Len(jaratok') >= Len(jaratok)
       /\ \A i \in 1..Len(jaratok) : jaratok'[i] = jaratok[i]
       /\ \A i \in (Len(jaratok) + 1)..Len(jaratok') :
            /\ jaratok'[i].statusz \in {AKTIV, INAKTIV}
            /\ jaratok'[i].statusz = AKTIV <=> jaratok'[i].datum > now]_vars

\* an added flight is still active although its date has passed
C10_Tanu ==
    /\ Len(jaratok) = 4
    /\ jaratok[4].statusz = AKTIV
    /\ jaratok[4].datum < now

\* C11: the menu loop is left only through choice 7: a step that takes the
\* program out of the loop (out of the menu and out of an operation under
\* way) is the exit choice, never an operation that failed.
C11_CsakKilepesselAllLe ==
    [][(pc \in {"menu", "ujra"} /\ pc' \notin {"menu", "ujra"})
       => (pc' = "kilepett" /\ kimenet'.muvelet = "kilepes")]_vars

\* the flights, bookings and identifiers are those _init_test_adatok made
TesztAllapot ==
    /\ Seeded
    /\ Len(jaratok) = 3
    /\ Len(foglalasok) = 6
    /\ ~VanLemondott

\* C12: right after seeding there are the 3 flights WIZ001, WIZ102, WIZ201 in
\* that order, WIZ001 inactive domestic of 2023-01-01, WIZ102 active domestic
\* at 16000, WIZ201 active international at 65000; 6 bookings, all active, 2
\* on WIZ102 and 4 on WIZ201, their identifiers all recorded; and the system
\* status then reports 3, 2, 2, 1, 6, 6, 0.
C12_TesztAdatok ==
    /\ (kimenet.muvelet = "init" /\ kimenet.uzenet = "betoltve")
       => /\ Len(jaratok) = 3
          /\ jaratok[1].jaratszam = WIZ001
          /\ jaratok[2].jaratszam = WIZ102
          /\ jaratok[3].jaratszam = WIZ201
          /\ jaratok[1].statusz = INAKTIV
          /\ jaratok[1].tipus = "Belföldi"
          /\ jaratok[1].datum = Datetime(2023, 1, 1)
          /\ jaratok[2].statusz = AKTIV
          /\ jaratok[2].tipus = "Belföldi"
          /\ jaratok[2].jegyar = FFromInt(16000)
          /\ jaratok[3].statusz = AKTIV
          /\ jaratok[3].tipus = "Nemzetközi"
          /\ jaratok[3].jegyar = FFromInt(65000)
          /\ Len(foglalasok) = 6
          /\ \A i \in 1..6 : /\ foglalasok[i].statusz = "Aktív"
                             /\ foglalasok[i].foglalas_id \in existing_foglalas_ids
          /\ Cardinality({i \in 1..6 : foglalasok[i].jaratszam = WIZ102}) = 2
          /\ Cardinality({i \in 1..6 : foglalasok[i].jaratszam = WIZ201}) = 4
    /\ (TesztAllapot /\ kimenet.muvelet = "allapot" /\ kimenet.uzenet = "allapot")
       => kimenet.adat.darab = <<3, 2, 2, 1, 6, 6, 0>>

(***************************************************************************)
(* The price computations on their own: a flight of either type is         *)
(* constructed from a whole base price, then a booking from the flight     *)
(***************************************************************************)
MaxAlapar == 60

InitAr ==
    /\ legitarsasag = Legitarsasag(WizzAir)
    /\ jaratok = <<>>
    /\ foglalasok = <<>>
    /\ existing_foglalas_ids = {}
    /\ now = Napkozben(2025, 6, 9)
    /\ pc = "ar"
    /\ fuggo \in {<<[alapar |-> b, tipus |-> t]>> : b \in 1..MaxAlapar, t \in {<<"1">>, <<"2">>}}
    /\ kimenet = Ki("ar", "", Semmi)

\* uj_jarat_hozzaadasa lines 313-316 and 321 for the price and type drawn
JaratKeszites ==
    /\ pc = "ar"
    /\ jaratok' = JaratHozzaadasa(jaratok,
                     IF fuggo[1].tipus = <<"1">>
                     THEN BelfoldiJarat(WIZ102, Budapest, Szeged, FFromInt(fuggo[1].alapar),
                                        WizzAir, Datetime(2025, 6, 10), now)
                     ELSE NemzetkoziJarat(WIZ201, Budapest, London, FFromInt(fuggo[1].alapar),
                                          WizzAir, Datetime(2025, 6, 15), now))
    /\ pc' = "jarat"
    /\ UNCHANGED <<legitarsasag, foglalasok, existing_foglalas_ids, now, fuggo, kimenet>>

\* jegy_foglalas lines 207-214 for that flight
FoglalasKeszites ==
    /\ pc = "jarat"
    /\ foglalasok' = Append(foglalasok, JegyFoglalas(jaratok[1], NagyJanos, IdSor[1]))
    /\ existing_foglalas_ids' = existing_foglalas_ids \cup {IdSor[1]}
    /\ pc' = "foglalva"
    /\ UNCHANGED <<legitarsasag, jaratok, now, fuggo, kimenet>>

NextAr == JaratKeszites \/ FoglalasKeszites

SpecAr == InitAr /\ [][NextAr]_vars

\* ten times the multiplier of a flight's type
TizszeresSzorzo(jarat) == IF jarat.tipus = "Belföldi" THEN 8 ELSE 13

\* 10 * ar = n as numbers, for a finite ar = m * 2^e
TizszereseEppen(ar, n) ==
    /\ ar.k = "fin"
    /\ IF ar.e <= 0
       THEN BTrim(BMulSmallC(BTrim(ar.m), 10, 0)) = BTrim(BShl(BFromInt(n), 0 - ar.e))
       ELSE BTrim(BShl(BMulSmallC(BTrim(ar.m), 10, 0), ar.e)) = BTrim(BFromInt(n))

C14_ErvenytelenJaratElutasitva ==
    [][/\ (/\ kimenet'.muvelet = "uj_jarat"
           /\ kimenet'.uzenet \in {"ervenytelen_ar", "nem_pozitiv",
                                   "ervenytelen_datum", "ervenytelen_tipus"})
          => UNCHANGED <<jaratok, foglalasok, existing_foglalas_ids>>
       /\ (kimenet'.muvelet = "uj_jarat" /\ jaratok' # jaratok)
          => /\ Utolso(jaratok').jegyar.k \in {"fin", "inf"}
             /\ Utolso(jaratok').jegyar.s = 1
             /\ Utolso(jaratok').tipus \in {"Belföldi", "Nemzetközi"}
             /\ Utolso(jaratok').datum \in Nat]_vars

(***************************************************************************)
(* Booking and cancelling on their own, followed for as long as the        *)
(* identifiers last, with the random draw of jegy_foglalas fair: an        *)
(* identifier that can be drawn is drawn at some turn of the loop          *)
(***************************************************************************)
NextFoglalas ==
    \/ InitTestAdatok
    \/ JegyFoglalasLepes
    \/ \E id \in Sorsolhato(existing_foglalas_ids) : Ujrageneralas(id)
    \/ FoglalasLemondasa
    \/ Kilepes

SpecFoglalas ==
    /\ Init
    /\ [][NextFoglalas]_vars
    /\ WF_vars(\E id \in Sorsolhato(existing_foglalas_ids) : Ujrageneralas(id))

\* C15: the regeneration loop of the book-a-ticket operation ends, under a
\* fair draw of identifiers, in every reachable state: whenever the loop is
\* running, control eventually returns to the menu.
C15_UjrageneralasVegetEr == (pc = "ujra") ~> (pc = "menu")

\* the position in lista of its i-th flight with stored status active,
\* looking from position n on; 0 when there is none
RECURSIVE AktivHelye(_, _, _)
AktivHelye(lista, i, n) ==
    IF n > Len(lista) THEN 0
    ELSE IF lista[n].statusz # AKTIV THEN AktivHelye(lista, i, n + 1)
    ELSE IF i = 1 THEN n
    ELSE AktivHelye(lista, i - 1, n + 1)
AktivDarab(lista) == Cardinality({n \in 1..Len(lista) : lista[n].statusz = AKTIV})
\* the text typed as selection is no number from 1 to k
RosszValasztas(v, k) == ~IntParseOk(v) \/ IntParse(v) < 1 \/ IntParse(v) > k

\* C16: in a step of book-a-ticket that read a selection, with k the number
\* of flights whose stored status is active: a selection that is no number
\* from 1 to k is refused and creates no booking and records no identifier;
\* a booking is made only with a selection i from 1 to k, against the i-th
\* active flight in insertion order, and then exactly one active booking is
\* appended at the end of the list and exactly its identifier, unused until
\* then, is added to the used identifiers.
C16_CsakAktivJaratFoglalhato ==
    [][(/\ kimenet'.muvelet = "foglalas"
        /\ kimenet'.uzenet \in {"ervenytelen_bemenet", "ervenytelen_valasztas", "elmult",
                                "rovid_nev", "utkozes", "siker"}
        /\ kimenet' # kimenet \/ foglalasok' # foglalasok)
       => LET v == kimenet'.adat.valasz
              k == AktivDarab(jaratok)
          IN  /\ RosszValasztas(v, k)
                 <=> kimenet'.uzenet \in {"ervenytelen_bemenet", "ervenytelen_valasztas"}
              /\ kimenet'.uzenet # "siker"
                 => UNCHANGED <<foglalasok, existing_foglalas_ids, jaratok>>
              /\ kimenet'.uzenet = "siker"
                 => LET j == jaratok[AktivHelye(jaratok, IntParse(v), 1)]
                        f == Utolso(foglalasok')
                    IN  /\ Len(foglalasok') = Len(foglalasok) + 1
                        /\ SubSeq(foglalasok', 1, Len(foglalasok)) = foglalasok
                        /\ f.jaratszam = j.jaratszam
                        /\ f.statusz = "Aktív"
                        /\ j.statusz = AKTIV
                        /\ f.foglalas_id \notin existing_foglalas_ids
                        /\ existing_foglalas_ids' = existing_foglalas_ids \cup {f.foglalas_id}
                        /\ jaratok' = jaratok]_vars

\* selection 1 booked the second flight of the list, the first being inactive
C16_Tanu ==
    /\ kimenet.muvelet = "foglalas" /\ kimenet.uzenet = "siker"
    /\ kimenet.adat.valasz = <<"1">>
    /\ jaratok[1].statusz = INAKTIV
    /\ Utolso(foglalasok).jaratszam = jaratok[2].jaratszam

\* C17: after seeding and any menu operations the used identifiers are
\* exactly the identifiers of the bookings in the list, active and cancelled
\* alike.
C17_HasznaltIdkAFoglalasoke ==
    Seeded =>
        /\ \A i \in 1..Len(foglalasok) : foglalasok[i].foglalas_id \in existing_foglalas_ids
        /\ \A id \in existing_foglalas_ids :
             \E i \in 1..Len(foglalasok) : foglalasok[i].foglalas_id = id

\* a booking made after seeding has been cancelled, and its identifier is
\* still recorded
C17_Tanu ==
    /\ Len(foglalasok) > 6
    /\ Utolso(foglalasok).statusz = "Lemondva"
    /\ Utolso(foglalasok).foglalas_id \in existing_foglalas_ids

\* the flight of the list that carries a booking's flight number, 0 if none
RECURSIVE JaratHelye(_, _)
JaratHelye(jaratszam, n) ==
    IF n > Len(jaratok) THEN 0
    ELSE IF jaratok[n].jaratszam = jaratszam THEN n
    ELSE JaratHelye(jaratszam, n + 1)

\* C18: every booking's flight number is the number of a flight in the
\* airline's list, and the booking's origin, destination, date and price are
\* that flight's.
C18_FoglalasAJaratMasolata ==
    \A i \in 1..Len(foglalasok) :
        LET n == JaratHelye(foglalasok[i].jaratszam, 1)
        IN  /\ n # 0
            /\ foglalasok[i].indulo = jaratok[n].indulo_repter
            /\ foglalasok[i].celallomas = jaratok[n].celallomas
            /\ foglalasok[i].datum = jaratok[n].datum
            /\ foglalasok[i].ar = jaratok[n].jegyar

\* a flight added through the menu has been booked
C18_Tanu ==
    /\ Len(jaratok) = 4
    /\ Len(foglalasok) > 6
    /\ Utolso(foglalasok).jaratszam = jaratok[4].jaratszam

\* C19: book-a-ticket and cancel never change the flight list; add-flight
\* never changes the booking list or the used identifiers; cancel never
\* changes the used identifiers or the length of the booking list; list
\* bookings, list flights and system status change no flight, booking or
\* identifier; and system status reports active + cancelled bookings = total
\* bookings and domestic + international flights = total flights.
C19_MuveletekHatasa ==
    [][/\ kimenet'.muvelet \in {"foglalas", "lemondas"}
          => UNCHANGED <<legitarsasag, jaratok>>
       /\ kimenet'.muvelet = "uj_jarat"
          => UNCHANGED <<foglalasok, existing_foglalas_ids>>
       /\ kimenet'.muvelet = "lemondas"
          => /\ existing_foglalas_ids' = existing_foglalas_ids
             /\ Len(foglalasok') = Len(foglalasok)
       /\ kimenet'.muvelet \in {"foglalasok", "jaratok", "allapot"}
          => UNCHANGED <<legitarsasag, jaratok, foglalasok, existing_foglalas_ids>>
       /\ (kimenet'.muvelet = "allapot" /\ kimenet'.uzenet = "allapot")
          => LET d == kimenet'.adat.darab
             IN  /\ Len(d) = 7
                 /\ d[1] = Len(jaratok)
                 /\ d[3] + d[4] = d[1]
                 /\ d[5] = Len(foglalasok)
                 /\ d[6] + d[7] = d[5]]_vars

\* the status was reported with a fourth flight and a cancelled booking
C19_Tanu ==
    /\ kimenet.muvelet = "allapot" /\ kimenet.uzenet = "allapot"
    /\ kimenet.adat.darab[1] = 4
    /\ kimenet.adat.darab[7] >= 1
====
